---- MODULE Spec2Model ----
(***************************************************************************)
(* Streaming reconciliation engine of neuryx:                              *)
(* backend/speech/transcriber_stream.py, class StreamingTranscriber.       *)
(*                                                                         *)
(* One session object is modelled.  Texts are sequences of one-character   *)
(* strings, so that str.strip() is computed and not assumed.  Wall-clock   *)
(* time (time.time()) is an integer number of ticks of 0.8 s, so that      *)
(* TRANSCRIBE_INTERVAL = 0.8 s is 1 tick; the clock is monotone.          *)
(* Segment timestamps are integer milliseconds.                            *)
(***************************************************************************)
EXTENDS Integers, Sequences, FiniteSets, TLC

(* ---------------- bounds of the model ---------------- *)

\* constructor argument sample_rate, in samples per second
SampleRate == 2

\* self.window_samples, which the constructor sets to
\* int(sample_rate * window_seconds) from its argument window_seconds
window_samples == 2

\* value of time.time() when the session is constructed, in ticks
StartTime == 1

\* the clock stops advancing at this tick
MaxTime == 3

\* largest number of segments in one engine response
MaxSegs == 3

\* engine invocations that run to completion in one behaviour
MaxInvocations == 3

\* entries the committed list may reach in one behaviour
MaxCommitted == 2

\* ticks the clock may advance while one engine call runs
MaxLatency == 1

\* frames the recorder's callback delivers during one recording
MaxFrames == 2

\* /transcribe requests received in all
MaxUploads == 2

(* ---------------- program constants ---------------- *)

\* characters of full_text the history listing shows
PreviewChars == 100

\* self.TRANSCRIBE_INTERVAL = 0.8 (seconds), in ticks of 0.8 s
TRANSCRIBE_INTERVAL == 1

\* int(self.sample_rate * 1.0): the least audio ready() accepts
MinReadySamples == SampleRate * 1

\* Python's None, as a text value that no string equals
None == <<"None">>

(* ---------------- inputs ---------------- *)

\* sample values of a chunk
Samples == {1}

\* all sequences over S of length at most n
RECURSIVE SeqsUpTo(_, _)
SeqsUpTo(S, n) ==
    IF n = 0 THEN {<<>>}
    ELSE LET shorter == SeqsUpTo(S, n - 1)
         IN shorter \cup {Append(s, x) : s \in {t \in shorter : Len(t) = n - 1}, x \in S}

\* lengths of the chunks handed to add_chunk: empty, one sample, one second,
\* and one sample more than the whole window
ChunkLens == {0, 1, SampleRate, window_samples + 1}

Chunks == {c \in SeqsUpTo(Samples, window_samples + 1) : Len(c) \in ChunkLens}

\* raw segment texts the engine returns (non-empty after trimming)
RawTexts == {<<" ", "a", " ">>, <<"b">>}

\* window-relative start and end of the i-th segment of a response, in ms
SegStart(i) == (i - 1) * 1004
SegEnd(i) == i * 1004 - 8

\* engine responses: up to MaxSegs consecutive segments
Responses ==
    {[i \in 1..Len(ts) |-> [text |-> ts[i], start |-> SegStart(i), end |-> SegEnd(i)]] :
        ts \in SeqsUpTo(RawTexts, MaxSegs)}

(* ---------------- pure helpers ---------------- *)

IsSpace(c) == c \in {" ", "\t", "\n"}

\* str.strip(): drop leading and trailing whitespace
RECURSIVE LStrip(_)
LStrip(s) == IF s # <<>> /\ IsSpace(Head(s)) THEN LStrip(Tail(s)) ELSE s

RECURSIVE RStrip(_)
RStrip(s) ==
    IF s # <<>> /\ IsSpace(s[Len(s)]) THEN RStrip(SubSeq(s, 1, Len(s) - 1)) ELSE s

Strip(s) == RStrip(LStrip(s))

\* float(round(x, 2)) on a time in ms: nearest 10 ms (inputs have no ties)
Round2(ms) == ((ms + 5) \div 10) * 10

VARIABLES
    buffer,               \* self.buffer: the samples, oldest first
    committed_segments,   \* self.committed_segments
    current_partial,      \* self.current_partial
    last_committed_end_time,
    last_audio_time,      \* self.last_audio_time
    last_transcribe_time, \* self.last_transcribe_time
    chunk_count,          \* self.chunk_count
    total_inference_time, \* self.total_inference_time, in ticks
    total_commits,        \* self.total_commits
    language_code,        \* self.language_code
    profile,              \* self.profile
    initial_prompt,       \* self.initial_prompt
    file_writer,          \* self.file_writer: "none" (attribute absent), "open", "closed"
    file_lines,           \* lines the transcript file holds
    now,                  \* time.time()
    last_call,            \* the most recent call on the session, what it returned
                          \* and the prompt it passed to the engine
    inflight,             \* for each task inside transcribe(), where it is and
                          \* the locals it holds
    ingest,               \* where the task inside add_chunk() is
    loader,               \* ModelLoader._model and ModelLoader._current_model_size
    recorder,             \* the AudioManager of main.py: recording, the number of
                          \* frames, the state of self.stream, current_file
    transcripts,          \* the transcripts directory: timestamp |-> content of
                          \* <timestamp>.json
    requests,             \* the /transcribe requests being served
    served                \* the history records of the /transcribe requests
                          \* answered with success, oldest first

session == <<buffer, committed_segments, current_partial, last_committed_end_time,
             last_audio_time, last_transcribe_time, chunk_count,
             total_inference_time, total_commits, language_code, profile,
             initial_prompt, file_writer>>

\* what tasks hold while they are inside a method of the session; a caller
\* that makes one call at a time leaves it as it is
conc == <<inflight, ingest>>

\* the state of the process around the session: the model loader, the
\* recorder and the history; the session's methods leave it as it is
backend == <<loader, recorder, transcripts, requests, served>>

vars == <<session, file_lines, now, last_call, conc, backend>>

\* the tasks that call transcribe() on the one session
Tasks == {"worker1", "worker2"}

\* a task that is not inside transcribe()
Idle == [pc |-> "idle", audio |-> <<>>, start_inference |-> 0, prompt |-> None]


(* ---------------- backend/core/inference_config.py ---------------- *)

STREAMING_PROFILE ==
    [beam_size |-> 2, temperature |-> 0, best_of |-> 1,
     condition_on_previous_text |-> FALSE, vad_filter |-> TRUE,
     initial_prompt |-> None]

ACCURACY_PROFILE ==
    [beam_size |-> 5, temperature |-> 0, best_of |-> 3,
     condition_on_previous_text |-> TRUE, vad_filter |-> TRUE,
     initial_prompt |-> None]

URDU_PROFILE ==
    [beam_size |-> 5, temperature |-> 0, best_of |-> 3,
     condition_on_previous_text |-> TRUE, vad_filter |-> TRUE,
     initial_prompt |-> <<"The following speech is in Urdu. Transcribe carefully.">>]

ROMAN_URDU_PROFILE ==
    [beam_size |-> 5, temperature |-> 0, best_of |-> 3,
     condition_on_previous_text |-> TRUE, vad_filter |-> TRUE,
     initial_prompt |->
        <<"The following speech is in Urdu. Write the output in Roman Urdu using English letters.">>]

\* a table that reads the empty string as Roman Urdu
get_profile_for_language_empty_roman(language) ==
    IF language = "ur" THEN URDU_PROFILE
    ELSE IF language = "roman-ur" \/ language = "" THEN ROMAN_URDU_PROFILE
    ELSE IF language = "en" THEN STREAMING_PROFILE
    ELSE ACCURACY_PROFILE

get_profile_for_language(language) ==
    IF language = "ur" THEN URDU_PROFILE
    ELSE IF language = "roman-ur" THEN ROMAN_URDU_PROFILE
    ELSE IF language = "en" THEN STREAMING_PROFILE
    ELSE ACCURACY_PROFILE

\* truth value of an Optional[str]: None and "" are false
Truthy(text) == text # None /\ text # <<>>

(* ---------------- the process when a session is constructed ---------------- *)

\* WhisperModel(model_size, ...): a model object of that size
WhisperModel(model_size) == <<"WhisperModel">> \o model_size

\* the /transcribe requests that may be in progress at once
Uploads == {"upload1", "upload2"}

\* a request slot with no request in it
NoRequest == [state |-> "idle", timestamp |-> 0]

\* no files in the transcripts directory
EmptyDir == [timestamp \in {} |-> None]

\* ModelLoader after get_model("small") (transcriber_stream.py line 25 with the
\* default model_size, main.py line 41), AudioManager() as main.py line 33
\* constructs it, no history yet and no request in progress
InitBackend ==
    /\ loader = [model |-> WhisperModel(<<"small">>),
                 current_model_size |-> <<"small">>]
    /\ recorder = [recording |-> FALSE, frames |-> 0, stream |-> "None",
                   current_file |-> None]
    /\ transcripts = EmptyDir
    /\ requests = [u \in Uploads |-> NoRequest]
    /\ served = <<>>

(* ---------------- StreamingTranscriber.__init__ ---------------- *)

\* a call that is not transcribe() or get_metrics_summary() returned None
ReturnedNone == [op |-> "other", outcome |-> "returned"]

\* a constructor that hands the language code to the table as it is
InitSession_unmapped(language, prompt) ==
    LET prof == get_profile_for_language(language)
    IN /\ buffer = <<>>
       /\ language_code = language
       /\ profile = prof
       /\ initial_prompt = (IF Truthy(prompt) THEN prompt ELSE prof.initial_prompt)
       /\ committed_segments = <<>>
       /\ current_partial = <<>>
       /\ last_committed_end_time = 0
       /\ now = StartTime
       /\ last_audio_time = StartTime
       /\ last_transcribe_time = 0
       /\ chunk_count = 0
       /\ total_inference_time = 0
       /\ total_commits = 0
       /\ file_writer = "none"
       /\ file_lines = <<>>
       /\ last_call = ReturnedNone
       /\ inflight = [t \in Tasks |-> Idle]
       /\ ingest = "idle"
       /\ InitBackend

InitSession(language, prompt) ==
    LET lang_key == IF language = "" THEN "roman-ur" ELSE language
        prof == get_profile_for_language(lang_key)
    IN /\ buffer = <<>>
       /\ language_code = language
       /\ profile = prof
       /\ initial_prompt = (IF Truthy(prompt) THEN prompt ELSE prof.initial_prompt)
       /\ committed_segments = <<>>
       /\ current_partial = <<>>
       /\ last_committed_end_time = 0
       /\ now = StartTime
       /\ last_audio_time = StartTime
       /\ last_transcribe_time = 0
       /\ chunk_count = 0
       /\ total_inference_time = 0
       /\ total_commits = 0
       /\ file_writer = "none"
       /\ file_lines = <<>>
       /\ last_call = ReturnedNone
       /\ inflight = [t \in Tasks |-> Idle]
       /\ ingest = "idle"
       /\ InitBackend

\* StreamingTranscriber(language="en", initial_prompt=None), the defaults
Init == InitSession("en", None)

\* language codes a session is constructed with: the three the table knows,
\* the empty string, and two it does not know
Languages == {"en", "ur", "roman-ur", "", "auto", "fr"}

\* initial_prompt arguments: None, the empty string, a caller's prompt
Prompts == {None, <<>>, <<"p">>}

\* StreamingTranscriber(language=..., initial_prompt=...)
InitLang == \E language \in Languages : \E prompt \in Prompts :
                InitSession(language, prompt)

(* ---------------- add_chunk ---------------- *)

\* Trim without the trim: the window is never cut
Trim_never(b) == b

\* Trim that keeps the oldest samples of the window, not the newest
Trim_oldest(b) ==
    IF Len(b) > window_samples THEN SubSeq(b, 1, window_samples) ELSE b

\* buffer[-window_samples:] when the buffer is longer than the window
Trim(b) ==
    IF Len(b) > window_samples
    THEN SubSeq(b, Len(b) - window_samples + 1, Len(b))
    ELSE b

add_chunk(chunk) ==
    /\ buffer' = Trim(buffer \o chunk)
    /\ last_audio_time' = now
    /\ last_call' = ReturnedNone
    /\ UNCHANGED <<committed_segments, current_partial, last_committed_end_time,
                   last_transcribe_time, chunk_count, total_inference_time,
                   total_commits, language_code, profile, initial_prompt,
                   file_writer, file_lines, now>>
    /\ UNCHANGED <<conc, backend>>

(* ---------------- ready ---------------- *)

\* ready() without the minimum-audio test
ready_without_audio_test ==
    IF now - last_transcribe_time < TRANSCRIBE_INTERVAL THEN FALSE ELSE TRUE

\* ready() without the throttle test
ready_without_throttle ==
    IF Len(buffer) < MinReadySamples THEN FALSE ELSE TRUE

ready ==
    IF Len(buffer) < MinReadySamples THEN FALSE
    ELSE IF now - last_transcribe_time < TRANSCRIBE_INTERVAL THEN FALSE
    ELSE TRUE

(* ---------------- transcribe ---------------- *)

\* the value transcribe() returns
Result(committed, partial) ==
    [op |-> "transcribe", committed |-> committed, partial |-> partial]

\* an entry that stores the segment's text untrimmed
CommittedEntry_untrimmed(seg) ==
    [text |-> seg.text, start |-> Round2(seg.start), end |-> Round2(seg.end),
     finalized |-> TRUE]

CommittedEntry(seg) ==
    [text |-> Strip(seg.text), start |-> Round2(seg.start), end |-> Round2(seg.end),
     finalized |-> TRUE]

\* an append that keeps only the most recent entry
AppendCommit_capped(committed, entry) == <<entry>>

\* self.committed_segments.append({...})
AppendCommit(committed, entry) == Append(committed, entry)

\* the loop test off by one: the last segment is committed too
CommitsSegment_all(i, segment_list) == i <= Len(segment_list)

\* if i < len(segment_list) - 1, for the i-th segment counted from 1
CommitsSegment(i, segment_list) == i < Len(segment_list)

\* the state the commit loop works on: cs the committed list, tc total_commits,
\* fl the file's lines, partial the local partial_text, nw the writes done so
\* far by this call, raised whether a write raised
LoopStart ==
    [cs |-> committed_segments, tc |-> total_commits, fl |-> file_lines,
     partial |-> <<>>, nw |-> 0, raised |-> FALSE]

\* for i, seg in enumerate(segment_list), from the i-th segment on (1-based);
\* failAt is the number of the write that raises OSError (0: none does); a
\* write to a closed file always raises ValueError
RECURSIVE CommitLoop(_, _, _, _)
CommitLoop(i, segment_list, failAt, st) ==
    IF i > Len(segment_list) \/ st.raised THEN st
    ELSE IF CommitsSegment(i, segment_list) THEN
        LET text == Strip(segment_list[i].text)
            is_duplicate ==
                /\ st.cs # <<>>
                /\ st.cs[Len(st.cs)].text = text
        IN IF is_duplicate THEN CommitLoop(i + 1, segment_list, failAt, st)
           ELSE LET appended ==
                        [st EXCEPT !.cs = AppendCommit(@, CommittedEntry(segment_list[i]))]
                IN IF file_writer = "none"
                   THEN CommitLoop(i + 1, segment_list, failAt,
                                   [appended EXCEPT !.tc = @ + 1])
                   ELSE IF file_writer = "closed" \/ failAt = st.nw + 1
                   THEN [appended EXCEPT !.raised = TRUE]
                   ELSE CommitLoop(i + 1, segment_list, failAt,
                                   [appended EXCEPT !.fl = Append(@, text),
                                                    !.nw = @ + 1,
                                                    !.tc = @ + 1])
    ELSE CommitLoop(i + 1, segment_list, failAt,
                    [st EXCEPT !.partial = Strip(segment_list[i].text)])

\* a join that puts nothing between the parts
JoinWithSpace_glued(parts) ==
    IF Len(parts) = 1 THEN parts[1] ELSE parts[1] \o parts[2]

\* " ".join(prompt_parts), for the one or two parts the call collects
JoinWithSpace(parts) ==
    IF Len(parts) = 1 THEN parts[1] ELSE parts[1] \o <<" ">> \o parts[2]

\* the initial_prompt argument of self.model.transcribe
effective_prompt ==
    LET prompt_parts ==
            (IF committed_segments # <<>>
             THEN <<committed_segments[Len(committed_segments)].text>> ELSE <<>>)
            \o (IF Truthy(initial_prompt) THEN <<initial_prompt>> ELSE <<>>)
    IN IF prompt_parts # <<>> THEN JoinWithSpace(prompt_parts) ELSE None

\* clock values a later time.time() may read, given an earlier reading t
Later(t) == {u \in t..(t + MaxLatency) : u <= MaxTime}

\* a not-ready call that stamps last_transcribe_time before it returns
transcribe_not_ready_stamping ==
    /\ ~ready
    /\ last_transcribe_time' = now
    /\ last_call' = Result(committed_segments, current_partial) @@ [outcome |-> "not_ready"]
    /\ UNCHANGED <<buffer, committed_segments, current_partial,
                   last_committed_end_time, last_audio_time, chunk_count,
                   total_inference_time, total_commits, language_code, profile,
                   initial_prompt, file_writer, file_lines, now>>
    /\ UNCHANGED <<conc, backend>>

\* ready() is false: return the current pair
transcribe_not_ready ==
    /\ ~ready
    /\ last_call' = Result(committed_segments, current_partial) @@ [outcome |-> "not_ready"]
    /\ UNCHANGED <<session, file_lines, now>>
    /\ UNCHANGED <<conc, backend>>

\* an engine failure that loses the partial text
transcribe_engine_error_clearing(t1, t2) ==
    /\ ready
    /\ last_transcribe_time' = t1
    /\ now' = t2
    /\ current_partial' = <<>>
    /\ last_call' = [op |-> "transcribe", outcome |-> "engine_error",
                     prompt |-> effective_prompt]
    /\ UNCHANGED <<buffer, committed_segments, last_committed_end_time,
                   last_audio_time, chunk_count, total_inference_time,
                   total_commits, language_code, profile, initial_prompt,
                   file_writer, file_lines>>
    /\ UNCHANGED <<conc, backend>>

\* the engine call, or list(segments), raises; t1 is the clock on entry (lines
\* 80 and 97) and t2 the clock when the exception leaves the call
transcribe_engine_error(t1, t2) ==
    /\ ready
    /\ last_transcribe_time' = t1
    /\ now' = t2
    /\ last_call' = [op |-> "transcribe", outcome |-> "engine_error",
                     prompt |-> effective_prompt]
    /\ UNCHANGED <<buffer, committed_segments, current_partial,
                   last_committed_end_time, last_audio_time, chunk_count,
                   total_inference_time, total_commits, language_code, profile,
                   initial_prompt, file_writer, file_lines>>
    /\ UNCHANGED <<conc, backend>>

\* a call that clears the buffer when it has committed something
transcribe_engine_returns_clearing(segment_list, failAt, t1, t2) ==
    /\ ready
    /\ chunk_count < MaxInvocations
    /\ \E st \in {CommitLoop(1, segment_list, failAt, LoopStart)} :
       /\ Len(st.cs) <= MaxCommitted
       /\ last_transcribe_time' = t1
       /\ now' = t2
       /\ committed_segments' = st.cs
       /\ total_commits' = st.tc
       /\ file_lines' = st.fl
       /\ buffer' = (IF st.cs # committed_segments THEN <<>> ELSE buffer)
       /\ IF st.raised
          THEN /\ UNCHANGED <<current_partial, chunk_count, total_inference_time>>
               /\ last_call' = [op |-> "transcribe", outcome |-> "write_error",
                               prompt |-> effective_prompt]
          ELSE /\ current_partial' = st.partial
               /\ chunk_count' = chunk_count + 1
               /\ total_inference_time' = total_inference_time + (t2 - t1)
               /\ last_call' = Result(st.cs, st.partial)
                               @@ [outcome |-> "returned", prompt |-> effective_prompt]
       /\ UNCHANGED <<last_committed_end_time, last_audio_time,
                      language_code, profile, initial_prompt, file_writer>>
       /\ UNCHANGED <<conc, backend>>

\* the engine returns segment_list; t1 is the clock on entry (lines 80, 97 and
\* 102) and t2 the clock at line 130; the committed list is followed up to
\* cap entries
transcribe_engine_returns_upto(cap, segment_list, failAt, t1, t2) ==
    /\ ready
    /\ chunk_count < MaxInvocations
    /\ \E st \in {CommitLoop(1, segment_list, failAt, LoopStart)} :
       /\ Len(st.cs) <= cap
       /\ last_transcribe_time' = t1
       /\ now' = t2
       /\ committed_segments' = st.cs
       /\ total_commits' = st.tc
       /\ file_lines' = st.fl
       /\ IF st.raised
          THEN /\ UNCHANGED <<current_partial, chunk_count, total_inference_time>>
               /\ last_call' = [op |-> "transcribe", outcome |-> "write_error",
                               prompt |-> effective_prompt]
          ELSE /\ current_partial' = st.partial
               /\ chunk_count' = chunk_count + 1
               /\ total_inference_time' = total_inference_time + (t2 - t1)
               /\ last_call' = Result(st.cs, st.partial)
                               @@ [outcome |-> "returned", prompt |-> effective_prompt]
       /\ UNCHANGED <<buffer, last_committed_end_time, last_audio_time,
                      language_code, profile, initial_prompt, file_writer>>
       /\ UNCHANGED <<conc, backend>>

transcribe_engine_returns(segment_list, failAt, t1, t2) ==
    transcribe_engine_returns_upto(MaxCommitted, segment_list, failAt, t1, t2)

\* the writes of one call that may raise OSError: only an open file can fail so
WriteFailures == IF file_writer = "open" THEN 0..(MaxSegs - 1) ELSE {0}

transcribe ==
    \/ transcribe_not_ready
    \/ \E t2 \in Later(now) :
         \/ transcribe_engine_error(now, t2)
         \/ \E segment_list \in Responses : \E failAt \in WriteFailures :
              transcribe_engine_returns(segment_list, failAt, now, t2)

(* ---------------- set_file_writer, close, get_metrics_summary ---------------- *)

set_file_writer ==
    /\ file_writer' = "open"
    /\ last_call' = ReturnedNone
    /\ UNCHANGED <<buffer, committed_segments, current_partial,
                   last_committed_end_time, last_audio_time, last_transcribe_time,
                   chunk_count, total_inference_time, total_commits,
                   language_code, profile, initial_prompt, file_lines, now>>
    /\ UNCHANGED <<conc, backend>>

\* a close() that also forgets the session's language
close_forgetting ==
    /\ file_writer' = (IF file_writer # "none" THEN "closed" ELSE file_writer)
    /\ language_code' = ""
    /\ last_call' = ReturnedNone
    /\ UNCHANGED <<buffer, committed_segments, current_partial,
                   last_committed_end_time, last_audio_time, last_transcribe_time,
                   chunk_count, total_inference_time, total_commits,
                   profile, initial_prompt, file_lines, now>>
    /\ UNCHANGED <<conc, backend>>

close ==
    /\ file_writer' = (IF file_writer # "none" THEN "closed" ELSE file_writer)
    /\ last_call' = ReturnedNone
    /\ UNCHANGED <<buffer, committed_segments, current_partial,
                   last_committed_end_time, last_audio_time, last_transcribe_time,
                   chunk_count, total_inference_time, total_commits,
                   language_code, profile, initial_prompt, file_lines, now>>
    /\ UNCHANGED <<conc, backend>>

\* avg_inference_time is the quotient of the pair <<numerator, denominator>>
get_metrics_summary ==
    LET avg_inference ==
            IF chunk_count > 0 THEN <<total_inference_time, chunk_count>>
            ELSE <<0, 1>>
    IN /\ last_call' = [op |-> "get_metrics_summary", outcome |-> "returned",
                        total_chunks |-> chunk_count,
                        avg_inference_time |-> avg_inference,
                        total_commits |-> total_commits]
       /\ UNCHANGED <<session, file_lines, now>>
       /\ UNCHANGED <<conc, backend>>

(* ---------------- the clock ---------------- *)

Tick ==
    /\ now < MaxTime
    /\ now' = now + 1
    /\ UNCHANGED <<session, file_lines, last_call>>
    /\ UNCHANGED <<conc, backend>>

(* ---------------- the session ---------------- *)

Next ==
    \/ \E chunk \in Chunks : add_chunk(chunk)
    \/ transcribe
    \/ set_file_writer
    \/ close
    \/ get_metrics_summary
    \/ Tick

Spec == Init /\ [][Next]_vars

(* ---------------- the stable-hypothesis scenario ---------------- *)

\* an engine that maps whatever audio it is given to the same one-segment
\* hypothesis, with no engine or file failure and no file writer
StableResponse == <<[text |-> <<" ", "a", " ">>, start |-> SegStart(1), end |-> SegEnd(1)]>>

NextStable ==
    \/ \E chunk \in Chunks : add_chunk(chunk)
    \/ transcribe_not_ready
    \/ \E t2 \in Later(now) : transcribe_engine_returns(StableResponse, 0, now, t2)
    \/ Tick

SpecStable == Init /\ [][NextStable]_vars

(* ---------------- chunks of silence and of sound ---------------- *)

\* sample values that tell silence from sound: 0 is a sample of no energy
AudioSamples == {0, 1}

\* every chunk of these samples up to one sample more than the window
AudioChunks == SeqsUpTo(AudioSamples, window_samples + 1)

\* a session fed with such chunks, with an engine that returns the same
\* one-segment hypothesis on every invocation
NextBuf ==
    \/ \E chunk \in AudioChunks : add_chunk(chunk)
    \/ transcribe_not_ready
    \/ \E t2 \in Later(now) : transcribe_engine_returns(StableResponse, 0, now, t2)
    \/ get_metrics_summary
    \/ Tick

SpecBuf == Init /\ [][NextBuf]_vars

(* ---------------- sessions of every language ---------------- *)

\* a session of any language and prompt, fed chunks and transcribed with no
\* transcript file attached
NextLang ==
    \/ \E chunk \in Chunks : add_chunk(chunk)
    \/ transcribe_not_ready
    \/ \E t2 \in Later(now) : \E segment_list \in Responses :
          transcribe_engine_returns(segment_list, 0, now, t2)
    \/ Tick

SpecLang == InitLang /\ [][NextLang]_vars

(* ---------------- one session called from concurrent tasks ---------------- *)

\* The class holds no lock: a task inside a method can be interleaved with
\* others between its statements, and runs beside them during the engine call.

\* the tasks whose engine invocation is outstanding
Outstanding == {t \in Tasks : inflight[t].pc = "engine"}

\* the chunk that arrives next: one sample, loud when it arrives while an
\* engine invocation is outstanding and silent otherwise, so that the samples
\* that arrived in flight can be told from the others
ArrivingChunk == <<IF Outstanding # {} THEN 1 ELSE 0>>

\* a response of two segments: the first is committed, the second is the partial
ConcResponse ==
    <<[text |-> <<"b">>, start |-> SegStart(1), end |-> SegEnd(1)],
      [text |-> <<" ", "a", " ">>, start |-> SegStart(2), end |-> SegEnd(2)]>>

\* a concatenation that loses the chunk while an invocation is outstanding
add_chunk_concat_dropping(chunk) ==
    /\ ingest = "idle"
    /\ buffer' = (IF Outstanding # {} THEN buffer ELSE buffer \o chunk)
    /\ ingest' = "trim"
    /\ UNCHANGED <<committed_segments, current_partial, last_committed_end_time,
                   last_audio_time, last_transcribe_time, chunk_count,
                   total_inference_time, total_commits, language_code, profile,
                   initial_prompt, file_writer, file_lines, now, last_call,
                   inflight>>
    /\ UNCHANGED backend

\* line 72: self.buffer = np.concatenate(...)
add_chunk_concat(chunk) ==
    /\ ingest = "idle"
    /\ buffer' = buffer \o chunk
    /\ ingest' = "trim"
    /\ UNCHANGED <<committed_segments, current_partial, last_committed_end_time,
                   last_audio_time, last_transcribe_time, chunk_count,
                   total_inference_time, total_commits, language_code, profile,
                   initial_prompt, file_writer, file_lines, now, last_call,
                   inflight>>
    /\ UNCHANGED backend

\* lines 73-76: the trim and self.last_audio_time = time.time()
add_chunk_trim ==
    /\ ingest = "trim"
    /\ buffer' = Trim(buffer)
    /\ last_audio_time' = now
    /\ ingest' = "idle"
    /\ last_call' = ReturnedNone
    /\ UNCHANGED <<committed_segments, current_partial, last_committed_end_time,
                   last_transcribe_time, chunk_count, total_inference_time,
                   total_commits, language_code, profile, initial_prompt,
                   file_writer, file_lines, now, inflight>>
    /\ UNCHANGED backend

\* line 91 with ready() true: the task goes on to line 97
transcribe_gate(t) ==
    /\ inflight[t].pc = "idle"
    /\ ready
    /\ chunk_count < MaxInvocations
    /\ inflight' = [inflight EXCEPT ![t].pc = "gated"]
    /\ UNCHANGED <<session, file_lines, now, last_call, ingest>>
    /\ UNCHANGED backend

\* lines 97-116: the stamp, audio = self.buffer.squeeze(), the prompt, and the
\* engine is called
transcribe_invoke(t) ==
    /\ inflight[t].pc = "gated"
    /\ last_transcribe_time' = now
    /\ inflight' = [inflight EXCEPT ![t] =
                       [pc |-> "engine", audio |-> buffer, start_inference |-> now,
                        prompt |-> effective_prompt]]
    /\ UNCHANGED <<buffer, committed_segments, current_partial,
                   last_committed_end_time, last_audio_time, chunk_count,
                   total_inference_time, total_commits, language_code, profile,
                   initial_prompt, file_writer, file_lines, now, last_call, ingest>>
    /\ UNCHANGED backend

\* line 116 raises: the task leaves transcribe() with the exception
transcribe_engine_raises(t) ==
    /\ inflight[t].pc = "engine"
    /\ inflight' = [inflight EXCEPT ![t] = Idle]
    /\ last_call' = [op |-> "transcribe", outcome |-> "engine_error",
                     prompt |-> inflight[t].prompt]
    /\ UNCHANGED <<session, file_lines, now, ingest>>
    /\ UNCHANGED backend

\* lines 129-219: the engine has returned segment_list to task t
transcribe_apply(t, segment_list) ==
    /\ inflight[t].pc = "engine"
    /\ \E st \in {CommitLoop(1, segment_list, 0, LoopStart)} :
       /\ Len(st.cs) <= MaxCommitted
       /\ inflight' = [inflight EXCEPT ![t] = Idle]
       /\ committed_segments' = st.cs
       /\ total_commits' = st.tc
       /\ file_lines' = st.fl
       /\ IF st.raised
          THEN /\ UNCHANGED <<current_partial, chunk_count, total_inference_time>>
               /\ last_call' = [op |-> "transcribe", outcome |-> "write_error",
                               prompt |-> inflight[t].prompt]
          ELSE /\ current_partial' = st.partial
               /\ chunk_count' = chunk_count + 1
               /\ total_inference_time' =
                     total_inference_time + (now - inflight[t].start_inference)
               /\ last_call' = Result(st.cs, st.partial)
                               @@ [outcome |-> "returned", prompt |-> inflight[t].prompt]
       /\ UNCHANGED <<buffer, last_committed_end_time, last_audio_time,
                      last_transcribe_time, language_code, profile, initial_prompt,
                      file_writer, now, ingest>>
       /\ UNCHANGED backend

NextConc ==
    \/ add_chunk_concat(ArrivingChunk)
    \/ add_chunk_trim
    \/ transcribe_not_ready
    \/ \E t \in Tasks : transcribe_gate(t)
    \/ \E t \in Tasks : transcribe_invoke(t)
    \/ \E t \in Tasks : transcribe_engine_raises(t)
    \/ \E t \in Tasks : transcribe_apply(t, ConcResponse)
    \/ Tick

SpecConc == Init /\ [][NextConc]_vars

(* ---------------- a session torn down while its worker runs ---------------- *)

\* the task that runs transcribe() off the caller's thread
Worker == "worker1"

\* the caller feeds chunks, attaches the transcript file and closes the
\* session while the worker is anywhere inside transcribe()
NextTeardown ==
    \/ \E chunk \in Chunks : add_chunk(chunk)
    \/ transcribe_not_ready
    \/ transcribe_gate(Worker)
    \/ transcribe_invoke(Worker)
    \/ transcribe_engine_raises(Worker)
    \/ transcribe_apply(Worker, ConcResponse)
    \/ set_file_writer
    \/ close
    \/ Tick

SpecTeardown == Init /\ [][NextTeardown]_vars

(* ---------------- the same segments over an overlapping window ---------------- *)

\* a response of three segments: two are committed, the third is the partial
OverlapResponse ==
    <<[text |-> <<"b">>, start |-> SegStart(1), end |-> SegEnd(1)],
      [text |-> <<" ", "a", " ">>, start |-> SegStart(2), end |-> SegEnd(2)],
      [text |-> <<"b">>, start |-> SegStart(3), end |-> SegEnd(3)]>>

\* a session whose engine returns the same three segments on every
\* invocation, as it does while the window still holds the same speech
NextOverlap ==
    \/ \E chunk \in Chunks : add_chunk(chunk)
    \/ transcribe_not_ready
    \/ \E t2 \in Later(now) :
          transcribe_engine_returns_upto(2 * MaxCommitted, OverlapResponse, 0, now, t2)
    \/ Tick

SpecOverlap == Init /\ [][NextOverlap]_vars

(* ---------------- backend/speech/model_loader.py ---------------- *)

\* what the loader and the recorder leave as it is
streaming == <<session, file_lines, conc>>

\* model sizes asked for
ModelSizes == {<<"small">>, <<"tiny">>}

\* cls._model = None; cls._current_model_size = None
Unloaded == [model |-> None, current_model_size |-> None]

\* lines 21-22: the model exists and the size matches
IsLoaded(model_size) ==
    loader.model # None /\ loader.current_model_size = model_size

\* a get_model that answers a request for another size with the model it has
get_model_cached_any_size(model_size) ==
    /\ loader.model # None
    /\ last_call' = [op |-> "get_model", outcome |-> "returned",
                     asked |-> model_size, model |-> loader.model,
                     constructed |-> FALSE, unloaded |-> FALSE]
    /\ UNCHANGED <<streaming, now, loader, recorder, transcripts, requests, served>>

\* get_model(model_size) with the model of that size loaded (lines 21-22)
get_model_cached(model_size) ==
    /\ IsLoaded(model_size)
    /\ last_call' = [op |-> "get_model", outcome |-> "returned",
                     asked |-> model_size, model |-> loader.model,
                     constructed |-> FALSE, unloaded |-> FALSE]
    /\ UNCHANGED <<streaming, now, loader, recorder, transcripts, requests, served>>

\* get_model(model_size) that loads: unload_model() when a model of another
\* size exists (lines 25-26), then WhisperModel(...) succeeds (lines 33-38)
get_model_loads(model_size) ==
    /\ ~IsLoaded(model_size)
    /\ loader' = [model |-> WhisperModel(model_size),
                  current_model_size |-> model_size]
    /\ last_call' = [op |-> "get_model", outcome |-> "returned",
                     asked |-> model_size, model |-> WhisperModel(model_size),
                     constructed |-> TRUE, unloaded |-> loader.model # None]
    /\ UNCHANGED <<streaming, now, recorder, transcripts, requests, served>>

\* get_model(model_size) whose WhisperModel(...) raises (lines 39-41), after
\* the unload of lines 25-26
get_model_fails(model_size) ==
    /\ ~IsLoaded(model_size)
    /\ loader' = Unloaded
    /\ last_call' = [op |-> "get_model", outcome |-> "raised",
                     asked |-> model_size, model |-> None,
                     constructed |-> FALSE, unloaded |-> loader.model # None]
    /\ UNCHANGED <<streaming, now, recorder, transcripts, requests, served>>

get_model(model_size) ==
    \/ get_model_cached(model_size)
    \/ get_model_loads(model_size)
    \/ get_model_fails(model_size)

\* unload_model(): nothing when no model is held
unload_model ==
    /\ loader' = (IF loader.model # None THEN Unloaded ELSE loader)
    /\ last_call' = [op |-> "unload_model", outcome |-> "returned"]
    /\ UNCHANGED <<streaming, now, recorder, transcripts, requests, served>>

(* ---------------- backend/speech/audio_manager.py ---------------- *)

\* self.stream is None, or the sounddevice stream it refers to is "open"
\* (constructed, not started), "running", "stopped" or "closed"

\* int(time.time()) for a clock that counts ticks of 0.8 s
IntTime(t) == (t * 8) \div 10

\* the callback with self.recording true: self.frames.append(indata.copy())
callback ==
    /\ recorder.stream = "running"
    /\ recorder.recording
    /\ recorder.frames < MaxFrames
    /\ recorder' = [recorder EXCEPT !.frames = @ + 1]
    /\ last_call' = [op |-> "_callback", outcome |-> "returned"]
    /\ UNCHANGED <<streaming, now, loader, transcripts, requests, served>>

\* an already-recording guard that empties the captured frames
start_recording_already_clearing ==
    /\ recorder.recording
    /\ recorder' = [recorder EXCEPT !.frames = 0]
    /\ last_call' = [op |-> "start_recording", outcome |-> "returned",
                     status |-> "already_recording"]
    /\ UNCHANGED <<streaming, now, loader, transcripts, requests, served>>

\* lines 30-32
start_recording_already ==
    /\ recorder.recording
    /\ last_call' = [op |-> "start_recording", outcome |-> "returned",
                     status |-> "already_recording"]
    /\ UNCHANGED <<streaming, now, loader, recorder, transcripts, requests, served>>

\* lines 34-45: the stream is opened and started
start_recording_started ==
    /\ ~recorder.recording
    /\ recorder' = [recorder EXCEPT !.frames = 0, !.recording = TRUE,
                                    !.stream = "running"]
    /\ last_call' = [op |-> "start_recording", outcome |-> "returned",
                     status |-> "started"]
    /\ UNCHANGED <<streaming, now, loader, transcripts, requests, served>>

\* lines 34-49 with an exception: sd.InputStream(...) raises and self.stream
\* keeps its value, or self.stream.start() raises on the new stream
start_recording_raises ==
    /\ ~recorder.recording
    /\ \E stream \in {recorder.stream, "open"} :
          recorder' = [recorder EXCEPT !.frames = 0, !.recording = FALSE,
                                      !.stream = stream]
    /\ last_call' = [op |-> "start_recording", outcome |-> "raised"]
    /\ UNCHANGED <<streaming, now, loader, transcripts, requests, served>>

start_recording ==
    \/ start_recording_already
    \/ start_recording_started
    \/ start_recording_raises

\* lines 52-54
stop_recording_not_recording ==
    /\ ~recorder.recording
    /\ last_call' = [op |-> "stop_recording", outcome |-> "returned",
                     status |-> "not_recording"]
    /\ UNCHANGED <<streaming, now, loader, recorder, transcripts, requests, served>>

\* lines 56-76 with an exception: self.stream.stop() raises and the stream is
\* left running or stopped, self.stream.close() raises on the stopped stream,
\* or np.concatenate / write raises after the stream is closed
stop_recording_raises ==
    /\ recorder.recording
    /\ \E stream \in {"running", "stopped"} \cup
                      (IF recorder.frames > 0 THEN {"closed"} ELSE {}) :
          recorder' = [recorder EXCEPT !.recording = FALSE, !.stream = stream]
    /\ last_call' = [op |-> "stop_recording", outcome |-> "raised"]
    /\ UNCHANGED <<streaming, now, loader, transcripts, requests, served>>

\* lines 56-66: the stream is stopped and closed, no frame was captured
stop_recording_no_audio ==
    /\ recorder.recording
    /\ recorder.frames = 0
    /\ recorder' = [recorder EXCEPT !.recording = FALSE, !.stream = "closed"]
    /\ last_call' = [op |-> "stop_recording", outcome |-> "returned",
                     status |-> "error"]
    /\ UNCHANGED <<streaming, now, loader, transcripts, requests, served>>

\* lines 56-73: the stream is stopped and closed and the frames are saved
stop_recording_stopped ==
    /\ recorder.recording
    /\ recorder.frames > 0
    /\ recorder' = [recorder EXCEPT !.recording = FALSE, !.stream = "closed",
                                    !.current_file = <<"recording", IntTime(now)>>]
    /\ last_call' = [op |-> "stop_recording", outcome |-> "returned",
                     status |-> "stopped"]
    /\ UNCHANGED <<streaming, now, loader, transcripts, requests, served>>

stop_recording ==
    \/ stop_recording_not_recording
    \/ stop_recording_raises
    \/ stop_recording_no_audio
    \/ stop_recording_stopped

\* the process of main.py: the loader, the recorder and the clock
NextBackend ==
    \/ \E model_size \in ModelSizes : get_model(model_size)
    \/ unload_model
    \/ callback
    \/ start_recording
    \/ stop_recording
    \/ Tick

SpecBackend == Init /\ [][NextBackend]_vars

(* ---------------- backend/main.py: /transcribe and the history ---------------- *)

Min(a, b) == IF a <= b THEN a ELSE b

\* str(n): the decimal digits of n, most significant first
RECURSIVE Str(_)
Str(n) == IF n < 10 THEN <<n>> ELSE Str(n \div 10) \o <<n % 10>>

\* a < b for two strings of digits, as Python compares strings
RECURSIVE StrLess(_, _)
StrLess(a, b) ==
    IF a = <<>> THEN b # <<>>
    ELSE IF b = <<>> THEN FALSE
    ELSE IF a[1] # b[1] THEN a[1] < b[1]
    ELSE StrLess(Tail(a), Tail(b))

\* what run_transcription returns: the text and the detected language
HistoryResults ==
    {[full_text |-> <<"x">>, language |-> "ur"],
     [full_text |-> <<"y", "z">>, language |-> "en"]}

\* history_data of lines 179-184 for a result: the fields the history
\* endpoints and the claims read
history_data(timestamp, result) ==
    [id |-> Str(timestamp), timestamp |-> timestamp,
     full_text |-> result.full_text, language |-> result.language]

\* lines 154-168: the request is received, its timestamp taken, the upload
\* stored, and the transcription handed to the thread pool
transcribe_file_received(u) ==
    /\ requests[u].state = "idle"
    /\ Len(served) + Cardinality({v \in Uploads : requests[v].state # "idle"})
          < MaxUploads
    /\ requests' = [requests EXCEPT ![u] =
                       [state |-> "transcribing", timestamp |-> IntTime(now)]]
    /\ UNCHANGED <<streaming, now, last_call, loader, recorder, transcripts, served>>

\* lines 170-191: the transcription has returned result; <timestamp>.json is
\* written and the result is the response
transcribe_file_saved(u, result) ==
    LET data == history_data(requests[u].timestamp, result)
    IN /\ requests[u].state = "transcribing"
       /\ transcripts' = [id \in DOMAIN transcripts \cup {data.id} |->
                            IF id = data.id THEN data ELSE transcripts[id]]
       /\ served' = Append(served, data)
       /\ requests' = [requests EXCEPT ![u] = NoRequest]
       /\ last_call' = [op |-> "transcribe_file", outcome |-> "returned",
                        status_code |-> 200, content |-> result]
       /\ UNCHANGED <<streaming, now, loader, recorder>>

\* lines 193-198: the transcription raised; nothing is saved
transcribe_file_failed(u) ==
    /\ requests[u].state = "transcribing"
    /\ requests' = [requests EXCEPT ![u] = NoRequest]
    /\ last_call' = [op |-> "transcribe_file", outcome |-> "returned",
                     status_code |-> 500, content |-> None]
    /\ UNCHANGED <<streaming, now, loader, recorder, transcripts, served>>

\* full_text[:100] + "..."
Preview(full_text) ==
    SubSeq(full_text, 1, Min(Len(full_text), PreviewChars)) \o <<"...">>

\* the file names sorted in reverse, as a sequence
RECURSIVE SortedReverse(_)
SortedReverse(names) ==
    IF names = {} THEN <<>>
    ELSE LET last == CHOOSE a \in names : \A b \in names \ {a} : StrLess(b, a)
         IN <<last>> \o SortedReverse(names \ {last})

\* lines 207-228: the summaries of all history files, newest name first
history_items ==
    LET files == SortedReverse(DOMAIN transcripts)
    IN [i \in 1..Len(files) |->
          [id |-> transcripts[files[i]].id,
           timestamp |-> transcripts[files[i]].timestamp,
           full_text |-> Preview(transcripts[files[i]].full_text),
           language |-> transcripts[files[i]].language]]

get_history ==
    /\ last_call' = [op |-> "get_history", outcome |-> "returned",
                     history |-> history_items]
    /\ UNCHANGED <<streaming, now, backend>>

\* lines 238-249: the content of <id>.json, or 404
history_detail(id) ==
    IF id \in DOMAIN transcripts
    THEN [status_code |-> 200, content |-> transcripts[id]]
    ELSE [status_code |-> 404, content |-> None]

\* ids asked for: those of every timestamp the clock can give, and one more
HistoryIds == {Str(n) : n \in 0..(IntTime(MaxTime) + 1)}

get_history_detail(id) ==
    /\ last_call' = [op |-> "get_history_detail", outcome |-> "returned", id |-> id]
                    @@ history_detail(id)
    /\ UNCHANGED <<streaming, now, backend>>

NextHistory ==
    \/ \E u \in Uploads : transcribe_file_received(u)
    \/ \E u \in Uploads : \E result \in HistoryResults : transcribe_file_saved(u, result)
    \/ \E u \in Uploads : transcribe_file_failed(u)
    \/ get_history
    \/ \E id \in HistoryIds : get_history_detail(id)
    \/ Tick

SpecHistory == Init /\ [][NextHistory]_vars

(* ---------------- how a step is recognised ---------------- *)

IsPrefix(s, t) == Len(s) <= Len(t) /\ SubSeq(t, 1, Len(s)) = s

\* the step is a call of transcribe() (a call that changes nothing at all is a
\* stuttering step and is not seen)
TranscribeStep ==
    /\ last_call'.op = "transcribe"
    /\ (last_call' # last_call \/ session' # session)

\* the step is a call of transcribe() that invoked the engine
InvokedStep == TranscribeStep /\ last_call'.outcome # "not_ready"

\* both conditions of the invocation gate, read off the state before the call
GateOpen ==
    /\ Len(buffer) >= SampleRate
    /\ now - last_transcribe_time >= TRANSCRIBE_INTERVAL

\* the trimmed text of the last segment of a response, "" for no segments
LastText(segment_list) ==
    IF segment_list = <<>> THEN <<>>
    ELSE Strip(segment_list[Len(segment_list)].text)

(* ---------------- C1 ---------------- *)

\* C1: in every reachable state the buffer holds at most window_samples
\* samples, whatever chunks add_chunk was given (also chunks longer than the
\* window).
BufferCapacityInvariant == Len(buffer) <= window_samples

\* the buffer is full and a completed invocation has read it
C1_Witness == Len(buffer) = window_samples /\ chunk_count >= 1

(* ---------------- C2 ---------------- *)

\* C2: the committed list is append-only: across every step the list before
\* is a prefix of the list after, so no entry's text, start, end or finalized
\* field changes and no entry is removed.
CommitMonotonicity == [][IsPrefix(committed_segments, committed_segments')]_vars

\* the list was appended to by two calls: both entries were the first segment
\* of their response
C2_Witness ==
    /\ Len(committed_segments) >= 2
    /\ committed_segments[1].start = committed_segments[2].start

(* ---------------- C3 ---------------- *)

\* C3: after every transcribe() call whose engine invocation returned
\* segment_list, current_partial is the trimmed text of the last segment, or
\* "" when there are no segments, whatever the previous partial was.
PartialReplacement ==
    [][\A segment_list \in Responses : \A failAt \in 0..(MaxSegs - 1) :
         \A t2 \in Later(now) :
            transcribe_engine_returns(segment_list, failAt, now, t2)
                => current_partial' = LastText(segment_list)]_vars

(* ---------------- C4 ---------------- *)

\* C4: a transcribe() call made while ready() is false does not invoke the
\* engine, returns the current {committed, partial} pair and changes no
\* session state (buffer, committed list, partial, last_transcribe_time,
\* counters) nor the file.
NotReadyIdempotence ==
    [][(TranscribeStep /\ ~GateOpen)
          => /\ last_call'.outcome = "not_ready"
             /\ last_call'.committed = committed_segments
             /\ last_call'.partial = current_partial
             /\ UNCHANGED <<session, file_lines, now>>]_vars

\* a not-ready call returned a pair with a committed entry and a partial
C4_Witness ==
    /\ last_call.op = "transcribe"
    /\ last_call.outcome = "not_ready"
    /\ last_call.committed # <<>>
    /\ last_call.partial # <<>>

(* ---------------- C5 ---------------- *)

\* C5 as stated: three consecutive invocations returning the identical
\* non-empty hypothesis commit it exactly once, after the third: nothing is
\* committed before, and after the third the committed list holds exactly that
\* one entry, current_partial is empty and the buffer is cleared.
StabilityThresholdCommit ==
    /\ chunk_count < 3 => committed_segments = <<>>
    /\ (chunk_count = 3 /\ last_call.op = "transcribe" /\ last_call.outcome = "returned")
          => /\ Len(committed_segments) = 1
             /\ committed_segments[1].text = LastText(StableResponse)
             /\ current_partial = <<>>
             /\ buffer = <<>>

\* C5 amended: three consecutive invocations returning the identical
\* non-empty hypothesis as a single segment commit nothing: after each of
\* them, the third included, the committed list is unchanged (empty here),
\* current_partial is that text and the buffer is not cleared.
RepetitionNeverCommits ==
    (chunk_count >= 1 /\ last_call.op = "transcribe" /\ last_call.outcome = "returned")
        => /\ committed_segments = <<>>
           /\ total_commits = 0
           /\ current_partial = LastText(StableResponse)
           /\ Len(buffer) >= SampleRate

\* the third identical invocation has returned
C5_Witness ==
    /\ chunk_count = 3
    /\ last_call.op = "transcribe"
    /\ last_call.outcome = "returned"

(* ---------------- C6 ---------------- *)

\* the silence timeout, 0.8 s, in ticks
SILENCE_TIMEOUT_SEC == 1

\* C6: a transcribe() call that invokes the engine while the partial text is
\* non-empty and the last audio activity is more than the silence timeout ago
\* commits the hypothesis: it appends an entry whose text is the partial held
\* before the call or the hypothesis the call leaves.
SilenceForcedCommit ==
    [][(/\ InvokedStep
        /\ last_call'.outcome = "returned"
        /\ current_partial # <<>>
        /\ now - last_audio_time > SILENCE_TIMEOUT_SEC)
          => \E i \in (Len(committed_segments) + 1)..Len(committed_segments') :
                committed_segments'[i].text \in {current_partial, current_partial'}]_vars

(* ---------------- C7 ---------------- *)

\* the entries a response adds under the positional rule: segments 1..n-1 in
\* order, trimmed and finalized, each skipped when its text equals the text of
\* the entry then last in the list
RECURSIVE PositionalCommits(_, _, _)
PositionalCommits(i, segment_list, committed) ==
    IF i >= Len(segment_list) THEN committed
    ELSE LET entry == [text |-> Strip(segment_list[i].text),
                       start |-> Round2(segment_list[i].start),
                       end |-> Round2(segment_list[i].end),
                       finalized |-> TRUE]
             skipped == committed # <<>> /\ committed[Len(committed)].text = entry.text
         IN PositionalCommits(i + 1, segment_list,
                              IF skipped THEN committed ELSE Append(committed, entry))

\* C7: a transcribe() call whose engine invocation returned n >= 1 segments
\* appends segments 1..n-1 in response order (but for deduplication) and
\* makes the n-th segment current_partial without committing it.
PositionalCommit ==
    [][\A segment_list \in Responses \ {<<>>} : \A failAt \in 0..(MaxSegs - 1) :
         \A t2 \in Later(now) :
            transcribe_engine_returns(segment_list, failAt, now, t2)
                => /\ committed_segments' =
                        PositionalCommits(1, segment_list, committed_segments)
                   /\ current_partial' = LastText(segment_list)]_vars

(* ---------------- C8 ---------------- *)

\* C8: a transcribe() call invokes the engine if and only if, when it is
\* called, the buffer holds at least one second of audio and at least
\* TRANSCRIBE_INTERVAL has passed since last_transcribe_time.
InvocationGate ==
    [][TranscribeStep => ((last_call'.outcome # "not_ready") <=> GateOpen)]_vars

\* a call was refused by the throttle alone: the buffer held enough audio
C8_Witness ==
    /\ last_call.op = "transcribe"
    /\ last_call.outcome = "not_ready"
    /\ Len(buffer) >= SampleRate
    /\ chunk_count >= 1

(* ---------------- C9 ---------------- *)

\* C9: every engine invocation starts at least TRANSCRIBE_INTERVAL after the
\* start of the invocation before it, whether that one returned or raised,
\* and last_transcribe_time never decreases.
ThrottleSpacing ==
    [][/\ last_transcribe_time' >= last_transcribe_time
       /\ InvokedStep =>
            last_transcribe_time' - last_transcribe_time >= TRANSCRIBE_INTERVAL]_vars

\* an invocation started after an earlier one had completed, and it failed
C9_Witness ==
    /\ last_call.op = "transcribe"
    /\ last_call.outcome = "engine_error"
    /\ chunk_count >= 1
    /\ last_transcribe_time >= StartTime + TRANSCRIBE_INTERVAL

(* ---------------- C10 ---------------- *)

\* C10: a transcribe() call in which the engine raises leaves the committed
\* list and current_partial (and the buffer, the counters and the file) as
\* they were before the call.
EngineFailureKeepsState ==
    [][(InvokedStep /\ last_call'.outcome = "engine_error")
          => UNCHANGED <<committed_segments, current_partial, buffer, chunk_count,
                         total_inference_time, total_commits, file_writer,
                         file_lines>>]_vars

\* the engine raised while the session held a committed entry and a partial
C10_Witness ==
    /\ last_call.op = "transcribe"
    /\ last_call.outcome = "engine_error"
    /\ committed_segments # <<>>
    /\ current_partial # <<>>

(* ---------------- C14 ---------------- *)

\* C14: transcribe() leaves the buffer as it was, whether or not it commits
\* segments, and every step that changes the buffer is an add_chunk: the new
\* buffer is the old one with a chunk appended and trimmed.
BufferOnlyByAddChunk ==
    [][/\ TranscribeStep => buffer' = buffer
       /\ buffer' # buffer =>
            /\ last_call' = ReturnedNone
            /\ last_audio_time' = now
            /\ \E chunk \in Chunks : buffer' = Trim(buffer \o chunk)]_vars

\* a call has committed a segment and the audio is still in the buffer
C14_Witness ==
    /\ last_call.op = "transcribe"
    /\ last_call.outcome = "returned"
    /\ last_call.committed # <<>>
    /\ Len(buffer) >= SampleRate

(* ---------------- C20 ---------------- *)

\* C20: the counters are exact: every step adds to total_commits the number
\* of entries it appends to the committed list, and adds one to chunk_count
\* exactly when an engine invocation completes, also when a file write fails;
\* get_metrics_summary reports the average 0 when no invocation has completed.
MetricsExact ==
    [][/\ total_commits' - total_commits =
            Len(committed_segments') - Len(committed_segments)
       /\ chunk_count' - chunk_count =
            (IF InvokedStep /\ last_call'.outcome = "returned" THEN 1 ELSE 0)
       /\ (last_call'.op = "get_metrics_summary" /\ chunk_count = 0)
            => last_call'.avg_inference_time = <<0, 1>>]_vars

(* ---------------- C15 ---------------- *)

\* the last n elements of s, in their order
LastN(s, n) == SubSeq(s, Len(s) - n + 1, Len(s))

\* C15: after add_chunk(c) on a buffer b the buffer is the last
\* min(|b|+|c|, window_samples) samples of b followed by c, in their order,
\* and the call returns without an error.
RollingTrim ==
    [][\A chunk \in AudioChunks :
          add_chunk(chunk) =>
            /\ buffer' = LastN(buffer \o chunk,
                               Min(Len(buffer) + Len(chunk), window_samples))
            /\ last_call' = ReturnedNone]_vars

\* a full window that holds a silent sample followed by a loud one, reached
\* by add_chunk after an invocation took place on a full second of audio
C15_Witness ==
    /\ Len(buffer) = window_samples
    /\ buffer[1] = 0
    /\ buffer[window_samples] = 1
    /\ chunk_count >= 1
    /\ last_call = ReturnedNone

(* ---------------- C19 ---------------- *)

\* a non-empty chunk of no energy: its root mean square is 0, which exceeds
\* no threshold
IsSilent(chunk) == chunk # <<>> /\ \A i \in 1..Len(chunk) : chunk[i] = 0

\* C19: add_chunk of a silent chunk leaves last_audio_time unchanged.
EnergyGatedSilence ==
    [][\A chunk \in AudioChunks :
          (IsSilent(chunk) /\ add_chunk(chunk))
            => last_audio_time' = last_audio_time]_vars

(* ---------------- C16 ---------------- *)

\* the table as the claim states it
ClaimedProfile(language) ==
    CASE language = "ur" -> URDU_PROFILE
      [] language = "roman-ur" -> ROMAN_URDU_PROFILE
      [] language = "en" -> STREAMING_PROFILE
      [] OTHER -> ACCURACY_PROFILE

RecognizedLanguages == {"ur", "roman-ur", "en"}

\* C17 as stated: a session constructed with an empty or unrecognized language
\* code runs with ACCURACY_PROFILE.
SessionLanguageFallback ==
    language_code \notin RecognizedLanguages => profile = ACCURACY_PROFILE

\* C17 amended: a session constructed with an unrecognized non-empty language
\* code runs with ACCURACY_PROFILE, one constructed with the empty language
\* code runs with ROMAN_URDU_PROFILE, and the profile stays so for the whole
\* session.
SessionLanguageFallbackRomanUrdu ==
    /\ (language_code \notin RecognizedLanguages /\ language_code # "")
          => profile = ACCURACY_PROFILE
    /\ language_code = "" => profile = ROMAN_URDU_PROFILE

\* sessions of the empty language code have been constructed and have invoked
\* the engine
C17_Witness ==
    /\ language_code = ""
    /\ profile = ROMAN_URDU_PROFILE
    /\ last_call.op = "transcribe"
    /\ last_call.outcome = "returned"

(* ---------------- C18 ---------------- *)

\* the text of the last committed entry; read in the state a call starts
\* in, it is the text before the call's own commits
LastTextBefore == committed_segments[Len(committed_segments)].text

\* C18: the prompt an invocation passes to the engine is the text of the last
\* entry the committed list had before the call, then a single space, then
\* the session's initial prompt; only the one of them that exists when the
\* other is absent; and no prompt when the list is empty and there is no
\* initial prompt. The session's initial prompt is the caller's when that is
\* non-empty and the profile's otherwise.
PrimingPrompt ==
    [][InvokedStep =>
         /\ last_call'.prompt =
               (IF committed_segments # <<>> /\ Truthy(initial_prompt)
                   THEN LastTextBefore \o <<" ">> \o initial_prompt
                ELSE IF committed_segments # <<>> THEN LastTextBefore
                ELSE IF Truthy(initial_prompt) THEN initial_prompt
                ELSE None)
         /\ \E prompt \in Prompts :
               initial_prompt =
                  (IF Truthy(prompt) THEN prompt ELSE profile.initial_prompt)]_vars

\* an invocation that committed a new entry was primed with the text of the
\* entry committed before it, a space and the Urdu profile's prompt
C18_Witness ==
    /\ last_call.op = "transcribe"
    /\ last_call.outcome = "returned"
    /\ Len(committed_segments) = 2
    /\ language_code = "ur"
    /\ last_call.prompt =
          committed_segments[1].text \o <<" ">> \o URDU_PROFILE.initial_prompt

(* ---------------- C11 ---------------- *)

\* C11: at most one engine invocation of a session is outstanding at any
\* time, also when transcribe() is called from concurrent tasks.
MutualExclusion == Cardinality(Outstanding) <= 1

(* ---------------- C12 ---------------- *)

\* C12: a chunk that arrives while an invocation is outstanding is appended
\* to the buffer whole, and the trim that follows keeps the newest
\* window_samples samples; every step, those of add_chunk included, leaves
\* an outstanding invocation its audio, its prompt and its start time; and an
\* invocation that starts captures the buffer as it then is, the samples
\* that arrived in flight included.
ChunksInFlightKept ==
    [][/\ \A t \in Tasks :
            (inflight[t].pc = "engine" /\ inflight'[t].pc = "engine")
               => inflight'[t] = inflight[t]
       /\ (Outstanding # {} /\ ingest = "idle" /\ ingest' = "trim")
               => buffer' = buffer \o ArrivingChunk
       /\ (ingest = "trim" /\ ingest' = "idle")
               => buffer' = LastN(buffer, Min(Len(buffer), window_samples))
       /\ \A t \in Tasks :
            (inflight[t].pc = "gated" /\ inflight'[t].pc = "engine")
               => inflight'[t].audio = buffer]_vars

\* one invocation is outstanding; it holds the audio it captured, which ends
\* with a sample that arrived during an earlier invocation, while the buffer
\* has moved on by a chunk that arrived during this one
C12_Witness ==
    \E t \in Tasks :
        /\ Outstanding = {t}
        /\ chunk_count >= 1
        /\ ingest = "idle"
        /\ Len(inflight[t].audio) = window_samples
        /\ inflight[t].audio[window_samples] = 1
        /\ inflight[t].audio[1] = 0
        /\ Len(buffer) = window_samples
        /\ buffer[1] = 1

(* ---------------- C13 ---------------- *)

\* C13: once close() has closed the session's transcript file, no step writes
\* the committed list, current_partial or the file again; the result of an
\* invocation that was outstanding at close() is discarded.
TeardownDiscards ==
    [][file_writer = "closed"
          => UNCHANGED <<committed_segments, current_partial, file_lines>>]_vars

(* ---------------- C21 ---------------- *)

\* C21: no call of add_chunk, transcribe, get_metrics_summary,
\* set_file_writer or close, whatever its outcome, changes the session's
\* profile, language code or initial prompt.
ProfileFixed ==
    [][UNCHANGED <<profile, language_code, initial_prompt>>]_vars

\* a session that has invoked the engine, committed, and been closed with its
\* file attached still has what the constructor gave it
C21_Witness ==
    /\ chunk_count >= 1
    /\ committed_segments # <<>>
    /\ file_writer = "closed"
    /\ profile = STREAMING_PROFILE
    /\ language_code = "en"
    /\ initial_prompt = None

(* ---------------- C23 ---------------- *)

\* C23: in every reachable state no two consecutive entries of the committed
\* list have the same text.
NoAdjacentDuplicates ==
    \A i \in 1..(Len(committed_segments) - 1) :
        committed_segments[i].text # committed_segments[i + 1].text

\* two entries committed by one call, out of a response of three segments
C23_Witness ==
    /\ Len(committed_segments) >= 2
    /\ committed_segments[1].start # committed_segments[2].start
    /\ last_call.op = "transcribe"

(* ---------------- C24 ---------------- *)

\* C24: when an engine invocation returns the same list of segments as the
\* invocation before it, here a list of three, it appends nothing to the
\* committed list.
OverlapNotRecommitted ==
    [][(InvokedStep /\ chunk_count >= 1 /\ last_call'.outcome = "returned")
          => committed_segments' = committed_segments]_vars

(* ---------------- C25 ---------------- *)

\* the step is a call of get_model(model_size)
GetModelStep(model_size) ==
    /\ last_call'.op = "get_model"
    /\ last_call'.asked = model_size
    /\ (last_call' # last_call \/ loader' # loader)

\* C25: get_model(s) returns the instance it holds, constructing nothing,
\* when the loaded size is s; otherwise it unloads the model it holds, if
\* any, and then either holds and returns a newly constructed model of size
\* s or, when the load fails, holds nothing; and after every step, those of
\* a failed load and of unload_model included, the model is None exactly
\* when the current size is None, and a model held is the one of that size.
LoaderSingleton ==
    [][/\ (loader'.model = None) <=> (loader'.current_model_size = None)
       /\ loader'.model # None
             => loader'.model = WhisperModel(loader'.current_model_size)
       /\ \A model_size \in ModelSizes :
            GetModelStep(model_size) =>
              IF IsLoaded(model_size)
              THEN /\ last_call'.outcome = "returned"
                   /\ last_call'.model = loader.model
                   /\ ~last_call'.constructed
                   /\ loader' = loader
              ELSE /\ last_call'.unloaded = (loader.model # None)
                   /\ \/ /\ last_call'.outcome = "returned"
                         /\ last_call'.constructed
                         /\ loader' = [model |-> WhisperModel(model_size),
                                       current_model_size |-> model_size]
                         /\ last_call'.model = loader'.model
                      \/ /\ last_call'.outcome = "raised"
                         /\ loader' = Unloaded]_vars

\* a load of another size has failed after the model held was unloaded
C25_Witness ==
    /\ last_call.op = "get_model"
    /\ last_call.outcome = "raised"
    /\ last_call.unloaded
    /\ loader = Unloaded

(* ---------------- C26 ---------------- *)

\* the step is a call of the recorder's method op
RecorderStep(op) ==
    /\ last_call'.op = op
    /\ (last_call' # last_call \/ recorder' # recorder)

\* C26: start_recording while a recording is active returns status
\* 'already_recording' and leaves the recorder as it is, frames and stream
\* included; stop_recording while none is active returns 'not_recording' and
\* leaves the recorder as it is.
RecorderGuards ==
    [][/\ (RecorderStep("start_recording") /\ recorder.recording)
            => /\ last_call'.outcome = "returned"
               /\ last_call'.status = "already_recording"
               /\ recorder' = recorder
       /\ (RecorderStep("stop_recording") /\ ~recorder.recording)
            => /\ last_call'.outcome = "returned"
               /\ last_call'.status = "not_recording"
               /\ recorder' = recorder]_vars

\* a start was refused while a recording with captured frames was running
C26_Witness ==
    /\ last_call.op = "start_recording"
    /\ last_call.outcome = "returned"
    /\ last_call.status = "already_recording"
    /\ recorder.recording
    /\ recorder.frames > 0
    /\ recorder.stream = "running"

(* ---------------- C27 ---------------- *)

\* C27: after any outcome of start_recording or stop_recording the recording
\* flag is true exactly when the input stream is open and running.
RecorderFlagMatchesStream ==
    recorder.recording <=> (recorder.stream = "running")

(* ---------------- C22 ---------------- *)

\* C22: every result saved to history under an id is found by the listing
\* and returned by the detail lookup for that id with the full_text and the
\* language that were saved, and the lookup of an id under which nothing was
\* saved reports not found.
HistoryRoundTrip ==
    /\ \A i \in 1..Len(served) :
         /\ \E j \in 1..Len(history_items) : history_items[j].id = served[i].id
         /\ history_detail(served[i].id).status_code = 200
         /\ history_detail(served[i].id).content.full_text = served[i].full_text
         /\ history_detail(served[i].id).content.language = served[i].language
    /\ \A id \in HistoryIds :
         (\A i \in 1..Len(served) : served[i].id # id)
            => history_detail(id).status_code = 404

(* ---------------- C28 ---------------- *)

\* C28: after k successful /transcribe requests the history listing holds k
\* entries of k distinct ids.
HistoryNeverOverwritten ==
    /\ Len(history_items) = Len(served)
    /\ \A i, j \in 1..Len(history_items) :
         i # j => history_items[i].id # history_items[j].id

====
